---- MODULE Spec2Model ----
(***************************************************************************)
(* smart-boids: the session controller (src/src/main.rs) and the per-boid  *)
(* steering engine (src/src/boid.rs).                                      *)
(*                                                                         *)
(* Numbers.  The program computes in f32.  The model computes in fixed     *)
(* point: a length or a speed is an integer count of 1/Scale pixel (per    *)
(* second), and a product with a fractional factor is rounded to the       *)
(* nearest unit.  A random draw of rand::random::<f32>() in [0,1) is an    *)
(* integer numerator over RandDen.                                         *)
(***************************************************************************)
EXTENDS Integers, Sequences, FiniteSets

VARIABLES
    state,          \* GameState.state: "Setup" | "Play" | "Pause"
    dt,             \* GameState.dt: the tick's duration, in microseconds
    boids,          \* GameState.boids: sequence of [x, y, dx, dy]
    game_op_bt,     \* GameState.game_op_bt: the stored Sequence state, as the
                    \*          index of the child it stands at
    bt,             \* GameState.bt and the copy of it every boid holds
                    \*          (Boid.bt): the stored While state
    pressed_keys,   \* input::keyboard::pressed_keys(ctx) of the last update
    cursor,         \* input::mouse::position(ctx) of the last update
    ticks,          \* number of update calls so far
    prev_state,     \* history: state at the start of the last update
    spawned,        \* history: the flock Boid::create_boids returned in the
                    \*          last update (<<>> when it was not called)
    pre,            \* history: boids when the last update left the InputKey stage
    played,         \* history: the Play stage ran in the last update
    seen,           \* history: seen[i] is the other_boids vector handed to
                    \*          game_tick for boid i in the last update
    log             \* history: log[i] is the sequence of steering actions run on
                    \*          boid i in the last update, [act, before, after]

vars == <<state, dt, boids, game_op_bt, bt, pressed_keys, cursor, ticks,
          prev_state, spawned, pre, played, seen, log>>

----------------------------------------------------------------------------
(* Bounds of the model *)

\* units per pixel of the fixed-point representation
Scale == 10
\* denominator of a random draw: rand::random() is k / RandDen, 0 <= k < RandDen
RandDen == 64
\* number of boids of a flock; stands for OBJECT_COUNT (100 in main.rs)
NumBoids == 2
\* number of update calls explored by Spec
MaxTicks == 3
\* number of update calls explored by SpecChase
MaxChaseTicks == 8
\* number of steering actions applied in a row by SpecStep
MaxSteps == 2
\* number of update calls explored by SpecPlay
MaxPlayTicks == 2

(* Program constants, in pixels (per second) *)
WINDOW_HEIGHT == 720
WINDOW_WIDTH == (WINDOW_HEIGHT * 16) \div 9
OBJECT_COUNT == NumBoids
SPEED_LIMIT == 400
VISUAL_RANGE == 32
MIN_DISTANCE == 16
edge_buffer == 40
turn_factor == 16
cursor_radius == 20

win_width == WINDOW_WIDTH * Scale
win_height == WINDOW_HEIGHT * Scale

----------------------------------------------------------------------------
(* Fixed-point arithmetic *)

Abs(n) == IF n < 0 THEN -n ELSE n

\* n / d rounded to the nearest integer, halves away from zero (d > 0)
Round(n, d) ==
    IF n >= 0 THEN (2 * n + d) \div (2 * d) ELSE -((2 * (-n) + d) \div (2 * d))

\* v * num / den: the product of v with the factor num/den
Mul(v, num, den) == Round(v * num, den)

RECURSIVE SqrtSearch(_, _, _)
SqrtSearch(n, lo, hi) ==
    IF lo >= hi THEN lo
    ELSE LET mid == (lo + hi + 1) \div 2
         IN  IF mid * mid <= n THEN SqrtSearch(n, mid, hi)
             ELSE SqrtSearch(n, lo, mid - 1)

\* floor of the square root
FloorSqrt(n) == SqrtSearch(n, 0, 46340)

\* square root rounded to the nearest unit
Sqrt(n) ==
    LET s == FloorSqrt(n) IN IF n - s * s > s THEN s + 1 ELSE s

----------------------------------------------------------------------------
(* Boid *)

\* Boid::distance.  The floor keeps every comparison with a whole number of
\* units, and with 0, what it is for the real square root.
distance(a, b) ==
    FloorSqrt((a.x - b.x) * (a.x - b.x) + (a.y - b.y) * (a.y - b.y))

\* Boid::new without the quarter-width offset of the spawn area
BoidNewNoOffset(spawn_area_width, spawn_area_height, r) ==
    [x  |-> Round(r[1] * spawn_area_width, 2 * RandDen),
     y  |-> Round(r[2] * spawn_area_height, 2 * RandDen),
     dx |-> Round((2 * r[3] - RandDen) * SPEED_LIMIT * Scale, 2 * RandDen),
     dy |-> Round((2 * r[4] - RandDen) * SPEED_LIMIT * Scale, 2 * RandDen)]

\* Boid::new with the four draws r = <<rx, ry, rdx, rdy>> (color is never read)
BoidNew(spawn_area_width, spawn_area_height, r) ==
    [x  |-> Round(r[1] * spawn_area_width, 2 * RandDen) + spawn_area_width \div 4,
     y  |-> Round(r[2] * spawn_area_height, 2 * RandDen) + spawn_area_height \div 4,
     dx |-> Round((2 * r[3] - RandDen) * SPEED_LIMIT * Scale, 2 * RandDen),
     dy |-> Round((2 * r[4] - RandDen) * SPEED_LIMIT * Scale, 2 * RandDen)]

\* create_boids taking one boid too few
create_boids_one_short(count, world_width, world_height, rs) ==
    [i \in 1..(count - 1) |-> BoidNew(world_width, world_height, rs[i])]

\* Boid::create_boids: count boids, boid i built from the draws rs[i]
create_boids(count, world_width, world_height, rs) ==
    [i \in 1..count |-> BoidNew(world_width, world_height, rs[i])]

----------------------------------------------------------------------------
(* The five steering actions of Boid::game_tick *)

RECURSIVE AvoidLoop(_, _, _)
\* the accumulators move_x, move_y after the first k boids of other_boids
AvoidLoop(boid, other_boids, k) ==
    IF k = 0 THEN [move_x |-> 0, move_y |-> 0]
    ELSE LET m == AvoidLoop(boid, other_boids, k - 1)
             other == other_boids[k]
             dist == distance(boid, other)
         IN  IF dist < MIN_DISTANCE * Scale /\ dist > 0
             THEN [move_x |-> m.move_x + (boid.x - other.x),
                   move_y |-> m.move_y + (boid.y - other.y)]
             ELSE m

\* AvoidOthers without avoid_factor
AvoidOthersUnscaled(boid, other_boids) ==
    LET m == AvoidLoop(boid, other_boids, Len(other_boids))
    IN  [boid EXCEPT !.dx = @ + m.move_x, !.dy = @ + m.move_y]

\* BoidAction::AvoidOthers, avoid_factor = 0.5
AvoidOthers(boid, other_boids) ==
    LET m == AvoidLoop(boid, other_boids, Len(other_boids))
    IN  [boid EXCEPT !.dx = @ + Mul(m.move_x, 1, 2),
                     !.dy = @ + Mul(m.move_y, 1, 2)]

RECURSIVE CenterLoopNoRange(_, _, _)
\* CenterLoop without the test of the distance
CenterLoopNoRange(boid, other_boids, k) ==
    IF k = 0 THEN [center_x |-> 0, center_y |-> 0, num_neighbors |-> 0]
    ELSE LET m == CenterLoopNoRange(boid, other_boids, k - 1)
             other == other_boids[k]
         IN  [center_x |-> m.center_x + other.x,
              center_y |-> m.center_y + other.y,
              num_neighbors |-> m.num_neighbors + 1]

RECURSIVE CenterLoop(_, _, _)
\* the accumulators center_x, center_y, num_neighbors after the first k boids
CenterLoop(boid, other_boids, k) ==
    IF k = 0 THEN [center_x |-> 0, center_y |-> 0, num_neighbors |-> 0]
    ELSE LET m == CenterLoop(boid, other_boids, k - 1)
             other == other_boids[k]
         IN  IF distance(boid, other) < VISUAL_RANGE * Scale
             THEN [center_x |-> m.center_x + other.x,
                   center_y |-> m.center_y + other.y,
                   num_neighbors |-> m.num_neighbors + 1]
             ELSE m

\* FlyTowardsCenter assigning the velocity (=) where the code adds to it (+=)
FlyTowardsCenterAssign(boid, other_boids) ==
    LET m == CenterLoop(boid, other_boids, Len(other_boids))
    IN  IF m.num_neighbors > 0
        THEN LET center_x == Round(m.center_x, m.num_neighbors)
                 center_y == Round(m.center_y, m.num_neighbors)
             IN  [boid EXCEPT !.dx = Mul(center_x - boid.x, 1, 20),
                              !.dy = Mul(center_y - boid.y, 1, 20)]
        ELSE boid

\* BoidAction::FlyTowardsCenter, centering_factor = 0.05
FlyTowardsCenter(boid, other_boids) ==
    LET m == CenterLoop(boid, other_boids, Len(other_boids))
    IN  IF m.num_neighbors > 0
        THEN LET center_x == Round(m.center_x, m.num_neighbors)
                 center_y == Round(m.center_y, m.num_neighbors)
             IN  [boid EXCEPT !.dx = @ + Mul(center_x - boid.x, 1, 20),
                              !.dy = @ + Mul(center_y - boid.y, 1, 20)]
        ELSE boid

RECURSIVE VelocityLoop(_, _, _)
\* the accumulators avg_dx, avg_dy, num_neighbors after the first k boids
VelocityLoop(boid, other_boids, k) ==
    IF k = 0 THEN [avg_dx |-> 0, avg_dy |-> 0, num_neighbors |-> 0]
    ELSE LET m == VelocityLoop(boid, other_boids, k - 1)
             other == other_boids[k]
         IN  IF distance(boid, other) < VISUAL_RANGE * Scale
             THEN [avg_dx |-> m.avg_dx + other.dx,
                   avg_dy |-> m.avg_dy + other.dy,
                   num_neighbors |-> m.num_neighbors + 1]
             ELSE m

\* BoidAction::MatchVelocity, matching_factor = 0.1
MatchVelocity(boid, other_boids) ==
    LET m == VelocityLoop(boid, other_boids, Len(other_boids))
    IN  IF m.num_neighbors > 0
        THEN LET avg_dx == Round(m.avg_dx, m.num_neighbors)
                 avg_dy == Round(m.avg_dy, m.num_neighbors)
             IN  [boid EXCEPT !.dx = @ + Mul(avg_dx - boid.dx, 1, 10),
                              !.dy = @ + Mul(avg_dy - boid.dy, 1, 10)]
        ELSE boid

\* BoidAction::LimitSpeed; speed is the square root to the nearest unit
LimitSpeed(boid) ==
    LET speed == Sqrt(boid.dx * boid.dx + boid.dy * boid.dy)
    IN  IF speed > SPEED_LIMIT * Scale
        THEN [boid EXCEPT !.dx = Round(boid.dx * SPEED_LIMIT * Scale, speed),
                          !.dy = Round(boid.dy * SPEED_LIMIT * Scale, speed)]
        ELSE boid

\* no damping at all
DampNever(v, bounded) == v

\* damping when the flag is still true
DampWhenBounded(v, bounded) == IF bounded THEN Mul(v, 4, 5) ELSE v

\* if !x_bounded { boid.dx *= 0.8 }, and the same for y
Damp(v, bounded) == IF ~bounded THEN Mul(v, 4, 5) ELSE v

\* KeepWithinBounds with the second test of each axis behind an else: at most
\* one push an axis
KeepWithinBoundsElseIf(boid, c) ==
    LET eb == edge_buffer * Scale
        tf == turn_factor * Scale
        push_right == boid.x < win_width - eb
        push_left  == ~push_right /\ boid.x > eb
        push_down  == boid.y < win_height - eb
        push_up    == ~push_down /\ boid.y > eb
        x_bounded == (push_right <=> push_left)
        y_bounded == (push_down <=> push_up)
        dx1 == boid.dx + (IF push_right THEN tf ELSE 0) - (IF push_left THEN tf ELSE 0)
        dy1 == boid.dy + (IF push_down THEN tf ELSE 0) - (IF push_up THEN tf ELSE 0)
        dx2 == Damp(dx1, x_bounded)
        dy2 == Damp(dy1, y_bounded)
        near == FloorSqrt((boid.x - c.x) * (boid.x - c.x)
                          + (boid.y - c.y) * (boid.y - c.y)) < cursor_radius * Scale
    IN  [boid EXCEPT !.dx = IF near THEN dx2 + (boid.x - c.x) ELSE dx2,
                     !.dy = IF near THEN dy2 + (boid.y - c.y) ELSE dy2]

\* BoidAction::KeepWithinBounds with the cursor c.  x_bounded starts true and
\* is negated by each of the two pushes of its axis; so is y_bounded.
KeepWithinBounds(boid, c) ==
    LET eb == edge_buffer * Scale
        tf == turn_factor * Scale
        push_right == boid.x < win_width - eb
        push_left  == boid.x > eb
        push_down  == boid.y < win_height - eb
        push_up    == boid.y > eb
        x_bounded == (push_right <=> push_left)
        y_bounded == (push_down <=> push_up)
        dx1 == boid.dx + (IF push_right THEN tf ELSE 0) - (IF push_left THEN tf ELSE 0)
        dy1 == boid.dy + (IF push_down THEN tf ELSE 0) - (IF push_up THEN tf ELSE 0)
        dx2 == Damp(dx1, x_bounded)
        dy2 == Damp(dy1, y_bounded)
        near == FloorSqrt((boid.x - c.x) * (boid.x - c.x)
                          + (boid.y - c.y) * (boid.y - c.y)) < cursor_radius * Scale
    IN  [boid EXCEPT !.dx = IF near THEN dx2 + (boid.x - c.x) ELSE dx2,
                     !.dy = IF near THEN dy2 + (boid.y - c.y) ELSE dy2]

----------------------------------------------------------------------------
(* The behavior tree of a boid *)

BoidActions ==
    {"AvoidOthers", "FlyTowardsCenter", "MatchVelocity", "LimitSpeed",
     "KeepWithinBounds"}

\* the status each action's arm returns: RUNNING or (Success, args.dt)
ActionStatus(a) ==
    CASE a = "AvoidOthers" -> "Running"
      [] a = "FlyTowardsCenter" -> "Running"
      [] a = "MatchVelocity" -> "Success"
      [] a = "LimitSpeed" -> "Success"
      [] a = "KeepWithinBounds" -> "Running"

\* create_bt: While(WhenAll([fly_towards_center, avoid_others]),
\*                  [match_velocity, limit_speed, keep_within_bounds])
\* the tree with the children of WhenAll in the other order
create_bt_avoid_first ==
    [cond |-> <<"AvoidOthers", "FlyTowardsCenter">>,
     rep  |-> <<"MatchVelocity", "LimitSpeed", "KeepWithinBounds">>,
     i    |-> 1]

\* i is the behavior of rep the loop of the While state stands at
create_bt ==
    [cond |-> <<"FlyTowardsCenter", "AvoidOthers">>,
     rep  |-> <<"MatchVelocity", "LimitSpeed", "KeepWithinBounds">>,
     i    |-> 1]

RECURSIVE WhenAllTick(_)
\* one tick of a fresh WhenAll: the children are ticked in order until one
\* fails; it succeeds when all succeeded and is running otherwise
WhenAllTick(children) ==
    IF children = <<>> THEN [ran |-> <<>>, status |-> "Success"]
    ELSE LET a == Head(children)
             s == ActionStatus(a)
             rest == WhenAllTick(Tail(children))
         IN  IF s = "Failure" THEN [ran |-> <<a>>, status |-> "Failure"]
             ELSE [ran |-> <<a>> \o rest.ran,
                   status |-> IF rest.status = "Failure" THEN "Failure"
                              ELSE IF s = "Running" \/ rest.status = "Running"
                                   THEN "Running" ELSE "Success"]

RECURSIVE WhileLoop(_, _)
\* the loop of While over rep from index i: a success moves on to the next
\* behavior (the first again after the last), anything else leaves the loop
WhileLoop(rep, i) ==
    LET a == rep[i]
    IN  IF ActionStatus(a) = "Success"
        THEN <<a>> \o WhileLoop(rep, IF i + 1 > Len(rep) THEN 1 ELSE i + 1)
        ELSE <<a>>

\* bt.state.tick on the tree state b: the actions called, in order
BtTick(b) ==
    LET c == WhenAllTick(b.cond)
    IN  IF c.status # "Running" THEN c.ran ELSE c.ran \o WhileLoop(b.rep, b.i)

\* the tree state b after a tick that called acts: the loop stands at the
\* last behavior it ticked
BtAfter(b, acts) ==
    LET n == Len(acts) - Len(b.cond)
    IN  IF n < 1 THEN b
        ELSE [b EXCEPT !.i = ((b.i - 1 + n - 1) % Len(b.rep)) + 1]

\* the boid's tree ticked in place
BoidBtInPlace(stored, ticked) == ticked

\* let mut bt = boid.bt.clone(): the tick runs on a copy, which is dropped;
\* boid.bt stays as it was stored
BoidBt(stored, ticked) == stored

\* the match of game_tick's closure on args.action
Act(a, boid, other_boids, c) ==
    CASE a = "AvoidOthers" -> AvoidOthers(boid, other_boids)
      [] a = "FlyTowardsCenter" -> FlyTowardsCenter(boid, other_boids)
      [] a = "MatchVelocity" -> MatchVelocity(boid, other_boids)
      [] a = "LimitSpeed" -> LimitSpeed(boid)
      [] a = "KeepWithinBounds" -> KeepWithinBounds(boid, c)

RECURSIVE RunActions(_, _, _, _)
\* the closure called on each action of acts in turn: the record of each call
RunActions(acts, boid, other_boids, c) ==
    IF acts = <<>> THEN <<>>
    ELSE LET after == Act(Head(acts), boid, other_boids, c)
         IN  <<[act |-> Head(acts), before |-> boid, after |-> after]>>
             \o RunActions(Tail(acts), after, other_boids, c)

\* Boid::game_tick: the calls made on boid, given other_boids and the cursor
game_tick(c, boid, other_boids) ==
    RunActions(BtTick(bt), boid, other_boids, c)

\* the boid game_tick leaves
Stepped(boid, calls) ==
    IF calls = <<>> THEN boid ELSE calls[Len(calls)].after

----------------------------------------------------------------------------
(* GameState::game_op_tick: the tree Sequence([input_key, play]) *)

\* the keys the program tells apart; "A" is any other key
Keys == {"R", "Space", "P", "A"}

\* what an arm of InputKey leaves when it changes nothing
Same(st, bs) == [state |-> st, boids |-> bs, spawned |-> <<>>]

\* a reset that does not drain the flock
ResetArmKeepsFlock(bs) == [state |-> "Setup", boids |-> bs, spawned |-> <<>>]

\* "-> setup": self.state = Setup; self.boids.drain(..)
ResetArm(bs) == [state |-> "Setup", boids |-> <<>>, spawned |-> <<>>]

\* the arm PlayState::Setup of the match on self.state; rs are the draws
\* create_boids makes
SetupArm(st, bs, keys, rs) ==
    IF "Space" \in keys
    THEN LET fresh == create_boids(OBJECT_COUNT, win_width, win_height, rs)
         IN  [state |-> "Play", boids |-> fresh, spawned |-> fresh]
    ELSE Same(st, bs)

\* the arm PlayState::Pause
PauseArm(st, bs, keys) ==
    IF "Space" \in keys THEN [state |-> "Play", boids |-> bs, spawned |-> <<>>]
    ELSE Same(st, bs)

\* the Play arm testing Space instead of P
PlayArmWrongKey(st, bs, keys) ==
    IF "Space" \in keys THEN [state |-> "Pause", boids |-> bs, spawned |-> <<>>]
    ELSE Same(st, bs)

\* the arm PlayState::Play
PlayArm(st, bs, keys) ==
    IF "P" \in keys THEN [state |-> "Pause", boids |-> bs, spawned |-> <<>>]
    ELSE Same(st, bs)

\* match self.state
PhaseArms(st, bs, keys, rs) ==
    CASE st = "Setup" -> SetupArm(st, bs, keys, rs)
      [] st = "Pause" -> PauseArm(st, bs, keys)
      [] st = "Play" -> PlayArm(st, bs, keys)
      [] OTHER -> Same(st, bs)

\* InputKey with the start from Setup tested before R
InputKeyStartFirst(st, bs, keys, rs) ==
    IF keys = {} THEN Same(st, bs)
    ELSE IF st = "Setup" /\ "Space" \in keys THEN SetupArm(st, bs, keys, rs)
    ELSE IF "R" \in keys THEN ResetArm(bs)
    ELSE PhaseArms(st, bs, keys, rs)

\* the arm PlayState::InputKey: the phase and the flock it leaves
InputKey(st, bs, keys, rs) ==
    IF keys = {} THEN Same(st, bs)
    ELSE IF "R" \in keys THEN ResetArm(bs)
    ELSE PhaseArms(st, bs, keys, rs)

\* the status the arm PlayState::InputKey returns
InputKeyStatus(st) == IF st = "Play" THEN "Success" ELSE "Failure"

\* the whole duration in milliseconds, seconds included
as_millis(d) == d \div 1000

\* Duration::subsec_millis of a duration in microseconds
subsec_millis(d) == (d \div 1000) % 1000

\* boid.x += boid.dx * tick; boid.y += boid.dy * tick, tick = millis / 1000
Integrate(boid, millis) ==
    [boid EXCEPT !.x = @ + Round(boid.dx * millis, 1000),
                 !.y = @ + Round(boid.dy * millis, 1000)]

\* let boids_vec = self.boids.to_vec(), taken inside the loop: a copy of the
\* flock bs as the iterations before this one left it
boids_vec(bs) == bs

RECURSIVE PlayLoop(_, _, _, _)
\* the arm PlayState::Play from iteration i on; acc holds the flock so far
\* and the record of the iterations done
PlayLoop(acc, i, d, c) ==
    IF i > Len(acc.boids) THEN acc
    ELSE LET others == boids_vec(acc.boids)
             calls == game_tick(c, acc.boids[i], others)
             boid == Integrate(Stepped(acc.boids[i], calls), subsec_millis(d))
         IN  PlayLoop([boids |-> [acc.boids EXCEPT ![i] = boid],
                       seen  |-> Append(acc.seen, others),
                       log   |-> Append(acc.log, calls)],
                      i + 1, d, c)

\* the arm PlayState::Play
Play(bs, d, c) ==
    PlayLoop([boids |-> bs, seen |-> <<>>, log |-> <<>>], 1, d, c)

\* a tree that ticks play whatever input_key returned
game_op_tick_play_always(st, bs, d, keys, c, rs) ==
    LET k == InputKey(st, bs, keys, rs)
        p == Play(k.boids, d, c)
    IN  [state |-> k.state, boids |-> p.boids, spawned |-> k.spawned,
         pre |-> k.boids, played |-> TRUE, seen |-> p.seen, log |-> p.log]

\* Sequence([input_key, play]) ticked from a fresh clone: play is ticked in
\* the same call when input_key succeeded, and not at all when it failed
game_op_tick(st, bs, d, keys, c, rs) ==
    LET k == InputKey(st, bs, keys, rs)
    IN  IF InputKeyStatus(k.state) = "Success"
        THEN LET p == Play(k.boids, d, c)
             IN  [state |-> k.state, boids |-> p.boids, spawned |-> k.spawned,
                  pre |-> k.boids, played |-> TRUE, seen |-> p.seen, log |-> p.log]
        ELSE [state |-> k.state, boids |-> k.boids, spawned |-> k.spawned,
              pre |-> k.boids, played |-> FALSE, seen |-> <<>>, log |-> <<>>]

\* State::new(root): the Sequence state stands at its first child, input_key
StateNew == 0

\* game_op_bt.tick on a Sequence state standing at child i (0: input_key,
\* 1: play, 2: past the last child).  From input_key it is game_op_tick; a
\* state left at play ticks play alone; one past its last child calls nothing.
SequenceTick(i, st, bs, d, keys, c, rs) ==
    IF i = StateNew THEN game_op_tick(st, bs, d, keys, c, rs)
    ELSE IF i = 1
    THEN LET p == Play(bs, d, c)
         IN  [state |-> st, boids |-> p.boids, spawned |-> <<>>,
              pre |-> bs, played |-> TRUE, seen |-> p.seen, log |-> p.log]
    ELSE [state |-> st, boids |-> bs, spawned |-> <<>>,
          pre |-> bs, played |-> FALSE, seen |-> <<>>, log |-> <<>>]

\* where the Sequence state stands after the tick that returned r: at
\* input_key again when input_key failed, past play when play succeeded
SequenceAfter(i, r) ==
    IF i = StateNew THEN (IF r.played THEN 2 ELSE StateNew)
    ELSE IF i = 1 THEN 2
    ELSE i

\* the session tree ticked in place
GameOpBtInPlace(stored, ticked) == ticked

\* let mut game_op_bt = self.game_op_bt.clone(): the tick runs on a copy,
\* which is dropped; self.game_op_bt stays as it was stored
GameOpBt(stored, ticked) == stored

\* the actions a tick called on the first boid, in order (<<>> when the flock
\* is empty or the Play stage did not run)
ActsOf(lg) ==
    IF lg = <<>> THEN <<>> ELSE [k \in 1..Len(lg[1]) |-> lg[1][k].act]

----------------------------------------------------------------------------
(* Inputs *)

Px(n) == n * Scale

\* draws <<rx, ry, rdx, rdy>> of one Boid::new, numerators over RandDen:
\* a boid at (320, 180) flying down right, one 10 px right of it flying left,
\* and one far from both flying up
DrawA == <<0, 0, 62, 62>>
DrawB == <<1, 0, 0, 32>>
DrawC == <<62, 60, 32, 0>>
RandDraws == {DrawA, DrawB, DrawC}

\* the draws of one create_boids call
FlockDraws(D) == [1..OBJECT_COUNT -> D]

\* cursor positions: 19.8 px up left of (320, 180), and the window's centre
CursorNear == [x |-> Px(306), y |-> Px(166)]
CursorFar == [x |-> Px(640), y |-> Px(360)]
Cursors == {CursorNear, CursorFar}

\* tick durations in microseconds: half a millisecond, and 16 ms
Durations == {500, 16000}

----------------------------------------------------------------------------
(* The program: EventHandler::update is its one operation *)

Init ==
    /\ state = "Setup"
    /\ dt = 0
    /\ boids = <<>>
    /\ game_op_bt = StateNew
    /\ bt = create_bt
    /\ pressed_keys = {}
    /\ cursor = CursorFar
    /\ ticks = 0
    /\ prev_state = "Setup"
    /\ spawned = <<>>
    /\ pre = <<>>
    /\ played = FALSE
    /\ seen = <<>>
    /\ log = <<>>

\* EventHandler::update with the keys held, the cursor at c, d microseconds
\* since the last update, and rs the draws of a create_boids call
update(keys, c, d, rs) ==
    \E r \in {SequenceTick(game_op_bt, state, boids, d, keys, c, rs)} :
        /\ dt' = d
        /\ game_op_bt' = GameOpBt(game_op_bt, SequenceAfter(game_op_bt, r))
        /\ bt' = BoidBt(bt, BtAfter(bt, ActsOf(r.log)))
        /\ pressed_keys' = keys
        /\ cursor' = c
        /\ state' = r.state
        /\ boids' = r.boids
        /\ ticks' = ticks + 1
        /\ prev_state' = state
        /\ spawned' = r.spawned
        /\ pre' = r.pre
        /\ played' = r.played
        /\ seen' = r.seen
        /\ log' = r.log

\* the draws that matter: create_boids is only ever called in Setup, and only
\* with Space and without R among the keys
DrawsIn(st, keys, D) ==
    IF st = "Setup" /\ "Space" \in keys /\ "R" \notin keys THEN FlockDraws(D)
    ELSE {[i \in 1..OBJECT_COUNT |-> DrawA]}

Next ==
    /\ ticks < MaxTicks
    /\ \E keys \in SUBSET Keys, c \in {CursorFar}, d \in Durations :
          \E rs \in DrawsIn(state, keys, RandDraws) :
            update(keys, c, d, rs)

Spec == Init /\ [][Next]_vars

\* the same program with the cursor kept near one spawn point, ticks shorter
\* than a millisecond and Start the only key: long runs of few inputs
NextChase ==
    /\ ticks < MaxChaseTicks
    /\ \E keys \in {{}, {"Space"}}, c \in Cursors, d \in {500} :
          \E rs \in DrawsIn(state, keys, {DrawA, DrawC}) :
            update(keys, c, d, rs)

SpecChase == Init /\ [][NextChase]_vars

----------------------------------------------------------------------------
(* The Play stage on its own: a session in Play holding a flock that        *)
(* create_boids made, of one boid up to OBJECT_COUNT boids, updated with    *)
(* tick durations of every shape                                            *)

\* tick durations in microseconds: 0.5 ms, 16 ms, 16.5 ms, 1 s, 1.016 s
PlayDurations == {500, 16000, 16500, 1000000, 1016000}

\* the keys held: none, P (pause), Space (resume, start), R (reset)
PlayKeys == {{}, {"P"}, {"Space"}, {"R"}}

PlayFlocks ==
    UNION {{create_boids(n, win_width, win_height, rs) : rs \in [1..n -> RandDraws]} :
              n \in 1..OBJECT_COUNT}

InitPlay ==
    /\ state = "Play"
    /\ dt = 0
    /\ boids \in PlayFlocks
    /\ game_op_bt = StateNew
    /\ bt = create_bt
    /\ pressed_keys = {}
    /\ cursor = CursorFar
    /\ ticks = 0
    /\ prev_state = "Play"
    /\ spawned = <<>>
    /\ pre = boids
    /\ played = FALSE
    /\ seen = <<>>
    /\ log = <<>>

NextPlay ==
    /\ ticks < MaxPlayTicks
    /\ \E keys \in PlayKeys :
          \E d \in (IF keys = {} THEN PlayDurations ELSE {16000}) :
            \E rs \in DrawsIn(state, keys, RandDraws) :
              update(keys, CursorFar, d, rs)

SpecPlay == InitPlay /\ [][NextPlay]_vars

----------------------------------------------------------------------------
(* The steering actions one at a time: the match of game_tick's closure     *)
(* applied to boid 1 of a flock, with the flock as other_boids              *)

\* boid 1: near the left edge (x = edge_buffer - 1), near the top edge, near
\* the right and bottom edges, inside, and at edge_buffer exactly from the
\* left; slow, fast, and over the limit
StepPositions ==
    {<<Px(edge_buffer - 1), Px(360)>>, <<Px(640), Px(edge_buffer - 1)>>,
     <<Px(1250), Px(700)>>, <<Px(640), Px(360)>>,
     <<Px(edge_buffer), Px(360)>>}
StepVelocities == {<<Px(-200), Px(0)>>, <<Px(0), Px(400)>>, <<Px(300), Px(300)>>}
StepBoids ==
    {[x |-> p[1], y |-> p[2], dx |-> v[1], dy |-> v[2]] :
        p \in StepPositions, v \in StepVelocities}

\* the other boids, by their offset from boid 1: on it, 10 px from it (twice),
\* at MIN_DISTANCE, within VISUAL_RANGE only, and out of sight
StepOffsets ==
    {<<Px(0), Px(0)>>, <<Px(10), Px(0)>>, <<Px(-6), Px(8)>>,
     <<Px(MIN_DISTANCE), Px(0)>>, <<Px(0), Px(-20)>>, <<Px(100), Px(0)>>}
Neighbor(b, o) == [x |-> b.x + o[1], y |-> b.y + o[2], dx |-> 4 * o[2], dy |-> -3 * o[1]]
StepFlocks ==
    {[i \in 1..OBJECT_COUNT |-> IF i = 1 THEN b ELSE Neighbor(b, o[i])] :
        b \in StepBoids, o \in [2..OBJECT_COUNT -> StepOffsets]}

\* the cursor, by its offset from boid 1: 19.8 px away, 20 px away, far away
StepCursorOffsets == {<<Px(-14), Px(-14)>>, <<Px(12), Px(16)>>, <<Px(300), Px(150)>>}

InitStep ==
    /\ state = "Play"
    /\ dt = 0
    /\ boids \in StepFlocks
    /\ game_op_bt = StateNew
    /\ bt = create_bt
    /\ pressed_keys = {}
    /\ \E o \in StepCursorOffsets :
          cursor = [x |-> boids[1].x + o[1], y |-> boids[1].y + o[2]]
    /\ ticks = 0
    /\ prev_state = "Play"
    /\ spawned = <<>>
    /\ pre = boids
    /\ played = TRUE
    /\ seen = <<boids>>
    /\ log = << <<>> >>

\* one call of the closure, on action a
Step(a) ==
    /\ Len(log[1]) < MaxSteps
    /\ \E after \in {Act(a, boids[1], seen[1], cursor)} :
          /\ boids' = [boids EXCEPT ![1] = after]
          /\ log' = [log EXCEPT ![1] =
                        Append(@, [act |-> a, before |-> boids[1], after |-> after])]
    /\ UNCHANGED <<state, dt, game_op_bt, bt, pressed_keys, cursor, ticks,
                   prev_state, spawned, pre, played, seen>>

NextStep == \E a \in BoidActions : Step(a)

SpecStep == InitStep /\ [][NextStep]_vars

----------------------------------------------------------------------------
(* Properties *)

Updated == ticks > 0

\* the calls recorded for the last update: boid i, call number k
Calls == UNION {{<<i, k>> : k \in 1..Len(log[i])} : i \in 1..Len(log)}

Call(ik) == log[ik[1]][ik[2]]

Sq(n) == n * n

\* whether b is less than cursor_radius from the cursor
NearCursor(b) ==
    Sq(b.x - cursor.x) + Sq(b.y - cursor.y) < Sq(Px(cursor_radius))

\* C1 (snapshot isolation): in an update that ran the Play stage, the
\* other_boids vector handed to the steering of boid i holds, for every other
\* boid j, j's position and velocity as they were when the stage began.
SnapshotIsolation ==
    played =>
        \A i \in 1..Len(seen) : \A j \in 1..Len(pre) :
            j # i => seen[i][j] = pre[j]

\* C2 (speed bound): after every update each boid of the flock has
\* dx^2 + dy^2 <= SPEED_LIMIT^2, up to a tolerance of one pixel per second
\* for rounding.
SpeedBound ==
    \A i \in 1..Len(boids) :
        Sq(boids[i].dx) + Sq(boids[i].dy) <= Sq(Px(SPEED_LIMIT + 1))

\* C3 (flock only while playing or paused): whenever the flock is not empty
\* the phase is Play or Pause.
FlockOnlyInSession ==
    boids # <<>> => state \in {"Play", "Pause"}

\* a paused session holding its whole flock
FlockOnlyInSessionWitness ==
    state = "Pause" /\ Len(boids) = OBJECT_COUNT /\ OBJECT_COUNT > 0

\* C4 (reset priority): an update whose pressed keys contain R ends in Setup
\* with an empty flock whatever the other keys, and it neither spawns nor
\* steps a boid.
ResetPriority ==
    (Updated /\ "R" \in pressed_keys) =>
        /\ state = "Setup"
        /\ boids = <<>>
        /\ spawned = <<>>
        /\ ~played
        /\ log = <<>>

\* R pressed together with Space and P while playing
ResetPriorityWitness ==
    /\ Updated
    /\ {"R", "Space", "P"} \subseteq pressed_keys
    /\ prev_state = "Play"
    /\ state = "Setup"

\* C5 (phase transition function): an update without R leaves the phase Play
\* from Setup with Space, Pause from Play with P, Play from Pause with Space,
\* and the phase it started with otherwise.
PhaseTransition ==
    (Updated /\ "R" \notin pressed_keys) =>
        state = IF prev_state = "Setup" /\ "Space" \in pressed_keys THEN "Play"
                ELSE IF prev_state = "Play" /\ "P" \in pressed_keys THEN "Pause"
                ELSE IF prev_state = "Pause" /\ "Space" \in pressed_keys THEN "Play"
                ELSE prev_state

\* a paused session resumed by Space
PhaseTransitionWitness ==
    /\ Updated
    /\ prev_state = "Pause"
    /\ state = "Play"
    /\ "Space" \in pressed_keys
    /\ "R" \notin pressed_keys

\* C6 (edge-triggered transitions): when the last update changed the phase
\* and the next update sees the same pressed keys, the phase does not change
\* again.
EdgeTriggered ==
    [][(Updated /\ state # prev_state /\ pressed_keys' = pressed_keys)
          => state' = state]_vars

\* C7 (start from Setup): an update in Setup with Space and without R ends in
\* Play with a flock of exactly OBJECT_COUNT boids, all of them spawned in this
\* update at a position of the central half of the window on each axis.
StartFromSetup ==
    (Updated /\ prev_state = "Setup" /\ "Space" \in pressed_keys
        /\ "R" \notin pressed_keys) =>
        /\ state = "Play"
        /\ Len(spawned) = OBJECT_COUNT
        /\ pre = spawned
        /\ Len(boids) = OBJECT_COUNT
        /\ \A i \in 1..Len(spawned) :
              /\ win_width \div 4 <= spawned[i].x
              /\ 4 * spawned[i].x <= 3 * win_width
              /\ win_height \div 4 <= spawned[i].y
              /\ 4 * spawned[i].y <= 3 * win_height

\* a session started again after a reset
StartFromSetupWitness ==
    /\ ticks > 1
    /\ prev_state = "Setup"
    /\ state = "Play"
    /\ Len(spawned) = OBJECT_COUNT
    /\ \E i \in 1..Len(spawned) : spawned[i].x > win_width \div 4

\* C8 (short circuit): the Play stage runs in an update exactly when the phase
\* left by the InputKey stage is Play; when it is not, the flock is the one the
\* InputKey stage left and no steering action was called.
ShortCircuit ==
    Updated =>
        /\ played <=> state = "Play"
        /\ played => Len(log) = Len(boids)
        /\ ~played => (boids = pre /\ log = <<>> /\ seen = <<>>)

\* the update in which P is pressed while playing: the flock is left as it was
ShortCircuitWitness ==
    /\ Updated
    /\ prev_state = "Play"
    /\ state = "Pause"
    /\ "P" \in pressed_keys
    /\ ~played
    /\ Len(boids) = OBJECT_COUNT
    /\ boids = pre

\* C9 as stated (containment): a KeepWithinBounds call on a boid that is not
\* near the cursor changes dx by exactly +turn_factor when x < edge_buffer and
\* by -turn_factor when x > win_width - edge_buffer, and dy likewise at the top
\* and bottom edges.
ContainmentPushOnly ==
    \A ik \in Calls :
        LET e == Call(ik)
        IN  (e.act = "KeepWithinBounds" /\ ~NearCursor(e.before)) =>
              /\ e.before.x < Px(edge_buffer) =>
                    e.after.dx = e.before.dx + Px(turn_factor)
              /\ e.before.x > win_width - Px(edge_buffer) =>
                    e.after.dx = e.before.dx - Px(turn_factor)
              /\ e.before.y < Px(edge_buffer) =>
                    e.after.dy = e.before.dy + Px(turn_factor)
              /\ e.before.y > win_height - Px(edge_buffer) =>
                    e.after.dy = e.before.dy - Px(turn_factor)

\* C9 as amended: the call adds turn_factor to dx and then damps it by 0.8
\* when x < edge_buffer, so that dx becomes (dx + turn_factor) * 0.8 (to the
\* nearest unit); (dx - turn_factor) * 0.8 when x > win_width - edge_buffer;
\* and dy likewise at the top and bottom edges.
ContainmentPushDamped ==
    \A ik \in Calls :
        LET e == Call(ik)
        IN  (e.act = "KeepWithinBounds" /\ ~NearCursor(e.before)) =>
              /\ e.before.x < Px(edge_buffer) =>
                    Abs(5 * e.after.dx - 4 * (e.before.dx + Px(turn_factor))) <= 2
              /\ e.before.x > win_width - Px(edge_buffer) =>
                    Abs(5 * e.after.dx - 4 * (e.before.dx - Px(turn_factor))) <= 2
              /\ e.before.y < Px(edge_buffer) =>
                    Abs(5 * e.after.dy - 4 * (e.before.dy + Px(turn_factor))) <= 2
              /\ e.before.y > win_height - Px(edge_buffer) =>
                    Abs(5 * e.after.dy - 4 * (e.before.dy - Px(turn_factor))) <= 2

\* a KeepWithinBounds call on a boid at x = edge_buffer - 1, away from the cursor
ContainmentWitness ==
    \E ik \in Calls :
        LET e == Call(ik)
        IN  /\ e.act = "KeepWithinBounds"
            /\ ~NearCursor(e.before)
            /\ e.before.x = Px(edge_buffer - 1)
            /\ e.after.dx # e.before.dx

RECURSIVE SeparationSum(_, _, _)
\* the sum of (b.pos - n.pos) over the boids n among the first k of others
\* with 0 < distance(b, n) < MIN_DISTANCE
SeparationSum(b, others, k) ==
    IF k = 0 THEN <<0, 0>>
    ELSE LET sum == SeparationSum(b, others, k - 1)
             n == others[k]
             d2 == Sq(b.x - n.x) + Sq(b.y - n.y)
         IN  IF 0 < d2 /\ d2 < Sq(Px(MIN_DISTANCE))
             THEN <<sum[1] + (b.x - n.x), sum[2] + (b.y - n.y)>>
             ELSE sum

\* C10 (separation): an AvoidOthers call adds to the velocity 0.5 times the
\* sum of (self.pos - n.pos) over the boids n handed to it with
\* 0 < distance < MIN_DISTANCE (to the nearest unit), and leaves the position.
Separation ==
    \A ik \in Calls :
        LET e == Call(ik)
            sum == SeparationSum(e.before, seen[ik[1]], Len(seen[ik[1]]))
        IN  e.act = "AvoidOthers" =>
              /\ Abs(2 * (e.after.dx - e.before.dx) - sum[1]) <= 1
              /\ Abs(2 * (e.after.dy - e.before.dy) - sum[2]) <= 1
              /\ e.after.x = e.before.x
              /\ e.after.y = e.before.y

\* an AvoidOthers call on a boid whose one neighbour within MIN_DISTANCE is
\* 10 px to its right: the velocity gains 5 px/s to the left
SeparationWitness ==
    \E ik \in Calls :
        LET e == Call(ik)
            others == seen[ik[1]]
        IN  /\ e.act = "AvoidOthers"
            /\ \E j \in 1..Len(others) :
                  /\ others[j].x = e.before.x + Px(10)
                  /\ others[j].y = e.before.y
                  /\ \A m \in 1..Len(others) :
                        m # j => distance(e.before, others[m]) = 0
            /\ e.after.dx - e.before.dx = -Px(5)
            /\ e.after.dy = e.before.dy

\* whether no boid of the vector handed to boid i, other than boid i itself,
\* is within VISUAL_RANGE of b
Alone(i, b) ==
    \A j \in 1..Len(seen[i]) :
        j # i => Sq(b.x - seen[i][j].x) + Sq(b.y - seen[i][j].y)
                    >= Sq(Px(VISUAL_RANGE))

\* C11 (cohesion and alignment no-op): in a Playing tick, the FlyTowardsCenter
\* call and the MatchVelocity call on a boid that has no other boid within
\* VISUAL_RANGE leave the boid, its velocity included, exactly as it was.
CohesionNoOp ==
    \A ik \in Calls :
        LET e == Call(ik)
        IN  (e.act \in {"FlyTowardsCenter", "MatchVelocity"}
                /\ Alone(ik[1], e.before)) => e.after = e.before

\* a flock of two boids out of sight of each other: the first, flying, went
\* through both calls
CohesionNoOpWitness ==
    /\ played
    /\ Len(boids) = 2
    /\ \E k1, k2 \in 1..Len(log[1]) :
          /\ log[1][k1].act = "FlyTowardsCenter"
          /\ log[1][k2].act = "MatchVelocity"
          /\ Alone(1, log[1][k1].before)
          /\ Alone(1, log[1][k2].before)
          /\ log[1][k2].before.dx # 0

\* C12 (determinism): every update leaves the phase and the flock that
\* game_op_tick, ticked from a new tree, computes from the phase and the flock
\* before the update, the update's duration, keys and cursor, and the draws of
\* the spawn; and it leaves the stored trees as they were, so that no status
\* of a tree is carried to the next update.
Determinism ==
    [][\E rs \in DrawsIn(state, pressed_keys', RandDraws) :
          \E r \in {game_op_tick(state, boids, dt', pressed_keys', cursor', rs)} :
              /\ state' = r.state
              /\ boids' = r.boids
              /\ spawned' = r.spawned
              /\ game_op_bt' = game_op_bt
              /\ bt' = bt]_vars

\* the Play stage ran in two updates in a row, and stepped a flock in the second
DeterminismWitness ==
    /\ ticks >= 2
    /\ prev_state = "Play"
    /\ played
    /\ Len(boids) = OBJECT_COUNT
    /\ Len(log) = OBJECT_COUNT
    /\ boids # pre

\* whether a coordinate v is strictly inside the buffered region of an axis
\* of length len
Interior(v, len) == Px(edge_buffer) < v /\ v < len - Px(edge_buffer)

\* C13 as stated (damping when unconstrained): a KeepWithinBounds call on a
\* boid that is not near the cursor multiplies an axis' velocity by 0.8 when
\* the boid is not within edge_buffer of either edge of that axis, and does
\* not damp it when the boid is within edge_buffer of an edge.
DampingWhenUnconstrained ==
    \A ik \in Calls :
        LET e == Call(ik)
        IN  (e.act = "KeepWithinBounds" /\ ~NearCursor(e.before)) =>
              /\ Interior(e.before.x, win_width) =>
                    Abs(5 * e.after.dx - 4 * e.before.dx) <= 2
              /\ Interior(e.before.y, win_height) =>
                    Abs(5 * e.after.dy - 4 * e.before.dy) <= 2
              /\ ~Interior(e.before.x, win_width) =>
                    Abs(e.after.dx - e.before.dx) = Px(turn_factor)
              /\ ~Interior(e.before.y, win_height) =>
                    Abs(e.after.dy - e.before.dy) = Px(turn_factor)

\* the push of the call on a coordinate v of an axis of length len
EdgePush(v, len) ==
    IF v <= Px(edge_buffer) THEN Px(turn_factor)
    ELSE IF v >= len - Px(edge_buffer) THEN -Px(turn_factor)
    ELSE 0

\* C13 as amended: the call multiplies an axis' velocity by 0.8, after the
\* push, exactly when the boid is within edge_buffer of an edge of that axis
\* (x <= edge_buffer or x >= win_width - edge_buffer); strictly inside, the
\* axis' velocity is not damped.  Each axis is decided on its own.
DampingAtEdge ==
    \A ik \in Calls :
        LET e == Call(ik)
            px == EdgePush(e.before.x, win_width)
            py == EdgePush(e.before.y, win_height)
        IN  (e.act = "KeepWithinBounds" /\ ~NearCursor(e.before)) =>
              /\ IF Interior(e.before.x, win_width)
                 THEN e.after.dx = e.before.dx + px
                 ELSE Abs(5 * e.after.dx - 4 * (e.before.dx + px)) <= 2
              /\ IF Interior(e.before.y, win_height)
                 THEN e.after.dy = e.before.dy + py
                 ELSE Abs(5 * e.after.dy - 4 * (e.before.dy + py)) <= 2

\* a call on a boid at x = edge_buffer exactly and inside on the y axis,
\* moving on both axes: dx is damped and dy is not
DampingWitness ==
    \E ik \in Calls :
        LET e == Call(ik)
        IN  /\ e.act = "KeepWithinBounds"
            /\ ~NearCursor(e.before)
            /\ e.before.x = Px(edge_buffer)
            /\ Interior(e.before.y, win_height)
            /\ e.before.dy # 0
            /\ e.after.dy = e.before.dy
            /\ e.after.dx = Mul(e.before.dx + Px(turn_factor), 4, 5)
            /\ e.after.dx # e.before.dx + Px(turn_factor)

\* the sequence sq without its element i
Without(sq, i) == SubSeq(sq, 1, i - 1) \o SubSeq(sq, i + 1, Len(sq))

\* C14 (neighbor set excludes self): in an update that ran the Play stage, the
\* vector handed to the steering of boid i holds one entry for every other
\* boid of the flock and none for boid i, so that the FlyTowardsCenter call
\* and the MatchVelocity call on boid i compute the centroid and the average
\* over the other boids only.
NeighborsExcludeSelf ==
    played =>
        /\ \A i \in 1..Len(seen) : Len(seen[i]) = Len(boids) - 1
        /\ \A ik \in Calls :
              LET e == Call(ik)
                  others == Without(seen[ik[1]], ik[1])
              IN  /\ e.act = "FlyTowardsCenter" =>
                        e.after = FlyTowardsCenter(e.before, others)
                  /\ e.act = "MatchVelocity" =>
                        e.after = MatchVelocity(e.before, others)

\* the number of calls of action a recorded for boid i in the last update
TimesCalled(i, a) == Cardinality({k \in 1..Len(log[i]) : log[i][k].act = a})

\* C15 (inert control wrapper): in every update that ran the Play stage, the
\* first after the spawn and the later ones alike, each of the five steering
\* actions was called exactly once on every boid of the flock.
EachActionOnce ==
    played =>
        /\ Len(log) = Len(boids)
        /\ \A i \in 1..Len(log) : \A a \in BoidActions : TimesCalled(i, a) = 1

\* a second Playing update in a row: the last boid of a whole flock went
\* through five calls again, KeepWithinBounds among them
EachActionOnceWitness ==
    /\ ticks >= 2
    /\ prev_state = "Play"
    /\ played
    /\ Len(log) = OBJECT_COUNT
    /\ Len(log[OBJECT_COUNT]) = Cardinality(BoidActions)
    /\ TimesCalled(OBJECT_COUNT, "KeepWithinBounds") = 1

\* whether the calls recorded for boid i are those of order, in order, each
\* starting from the boid the call before it left
CalledInOrder(i, order) ==
    /\ ActsOf(<<log[i]>>) = order
    /\ log[i][1].before = seen[i][i]
    /\ \A k \in 2..Len(log[i]) : log[i][k].before = log[i][k - 1].after

\* C16 as stated (steering order): in an update that ran the Play stage the
\* calls on every boid are AvoidOthers, FlyTowardsCenter, MatchVelocity,
\* LimitSpeed, KeepWithinBounds, in this order.
SteeringOrderAvoidFirst ==
    played =>
        \A i \in 1..Len(log) :
            CalledInOrder(i, <<"AvoidOthers", "FlyTowardsCenter", "MatchVelocity",
                               "LimitSpeed", "KeepWithinBounds">>)

\* C16 as amended: the calls on every boid are FlyTowardsCenter, AvoidOthers,
\* MatchVelocity, LimitSpeed, KeepWithinBounds, in this order, each applied to
\* the velocity the one before it left.
SteeringOrder ==
    played =>
        \A i \in 1..Len(log) :
            CalledInOrder(i, <<"FlyTowardsCenter", "AvoidOthers", "MatchVelocity",
                               "LimitSpeed", "KeepWithinBounds">>)

\* a boid with a neighbour 10 px away: its first three calls, cohesion,
\* separation and alignment, each changed its velocity
SteeringOrderWitness ==
    /\ played
    /\ \E i \in 1..Len(log) :
          /\ Len(log[i]) = 5
          /\ log[i][1].act = "FlyTowardsCenter"
          /\ log[i][2].act = "AvoidOthers"
          /\ \A k \in 1..3 : log[i][k].after.dx # log[i][k].before.dx

\* the whole milliseconds of the sub-second part of dt (dt in microseconds)
MsOfTick == (dt % 1000000) \div 1000

\* C17 (integration step): in an update that ran the Play stage no steering
\* call wrote a position, and every boid ends with the velocity its steering
\* left and the position it had plus that velocity times ms / 1000 (to the
\* nearest unit), ms being the whole milliseconds of the sub-second part of
\* the tick's duration; with ms = 0 no position changes.
IntegrationStep ==
    played =>
        \A i \in 1..Len(log) :
            LET old == seen[i][i]
                new == boids[i]
                last == Stepped(old, log[i])
            IN  /\ \A k \in 1..Len(log[i]) :
                      /\ log[i][k].after.x = log[i][k].before.x
                      /\ log[i][k].after.y = log[i][k].before.y
                /\ new.dx = last.dx
                /\ new.dy = last.dy
                /\ Abs(1000 * (new.x - old.x) - last.dx * MsOfTick) <= 500
                /\ Abs(1000 * (new.y - old.y) - last.dy * MsOfTick) <= 500
                /\ MsOfTick = 0 => (new.x = old.x /\ new.y = old.y)

\* an update of 1.016 s: a boid flying at 187.5 px/s moved 3 px, the distance
\* of 16 ms
IntegrationStepWitness ==
    /\ played
    /\ dt = 1016000
    /\ \E i \in 1..Len(log) :
          /\ seen[i][i].dx = Mul(Px(SPEED_LIMIT), 15, 32)
          /\ boids[i].dx = seen[i][i].dx
          /\ boids[i].x - seen[i][i].x = Px(3)

\* an update of half a millisecond on boids 10 px apart: the velocity of one
\* changed, and no position did
ShortTickWitness ==
    /\ played
    /\ dt = 500
    /\ \E i \in 1..Len(log) : boids[i].dx # seen[i][i].dx
    /\ \A i \in 1..Len(log) : boids[i].x = seen[i][i].x /\ boids[i].y = seen[i][i].y

\* C18 (flock size): in every reachable state the phase is Setup, Play or
\* Pause; the flock is empty in Setup and holds exactly OBJECT_COUNT boids in
\* Play and in Pause; the Play stage of an update leaves as many boids as it
\* found; and an update that began in Play or in Pause spawned nothing.
FlockSize ==
    /\ state \in {"Setup", "Play", "Pause"}
    /\ state = "Setup" => Len(boids) = 0
    /\ state \in {"Play", "Pause"} => Len(boids) = OBJECT_COUNT
    /\ Len(boids) = Len(pre)
    /\ (Updated /\ prev_state \in {"Play", "Pause"}) => spawned = <<>>

\* a session resumed from Pause: the whole flock is there, stepped again, and
\* none of it was spawned in this update
FlockSizeWitness ==
    /\ Updated
    /\ prev_state = "Pause"
    /\ state = "Play"
    /\ played
    /\ Len(boids) = OBJECT_COUNT
    /\ Len(log) = OBJECT_COUNT
    /\ spawned = <<>>

\* C19 (separation and cohesion commute): a boid that went through
\* FlyTowardsCenter and then AvoidOthers, the order of the tree, is the boid
\* that AvoidOthers and then FlyTowardsCenter make of the same boid and the
\* same vector of boids.
SeparationCohesionCommute ==
    \A i \in 1..Len(log) :
        (/\ Len(log[i]) >= 2
         /\ log[i][1].act = "FlyTowardsCenter"
         /\ log[i][2].act = "AvoidOthers") =>
            log[i][2].after =
                FlyTowardsCenter(AvoidOthers(log[i][1].before, seen[i]), seen[i])

\* both calls changed the velocity of a boid with a neighbour within
\* MIN_DISTANCE
SeparationCohesionCommuteWitness ==
    \E i \in 1..Len(log) :
        /\ Len(log[i]) >= 2
        /\ log[i][1].act = "FlyTowardsCenter"
        /\ log[i][2].act = "AvoidOthers"
        /\ log[i][1].after.dx # log[i][1].before.dx
        /\ log[i][2].after.dx # log[i][2].before.dx

\* C20 (interior frame): a KeepWithinBounds call on a boid 20 px or more from
\* the cursor leaves dx as it was when edge_buffer < x < win_width -
\* edge_buffer, and dy as it was when edge_buffer < y < win_height -
\* edge_buffer.
InteriorFrame ==
    \A ik \in Calls :
        LET e == Call(ik)
        IN  (e.act = "KeepWithinBounds" /\ ~NearCursor(e.before)) =>
              /\ Interior(e.before.x, win_width) => e.after.dx = e.before.dx
              /\ Interior(e.before.y, win_height) => e.after.dy = e.before.dy

\* a call on a boid in the middle of the window flying at (300, 300), the
\* cursor far away: the call changed nothing
InteriorFrameWitness ==
    \E ik \in Calls :
        LET e == Call(ik)
        IN  /\ e.act = "KeepWithinBounds"
            /\ ~NearCursor(e.before)
            /\ Interior(e.before.x, win_width)
            /\ Interior(e.before.y, win_height)
            /\ e.before.dx = Px(300)
            /\ e.before.dy = Px(300)
            /\ e.after = e.before

====
